---- MODULE Spec2Model ----
(***************************************************************************)
(* State-machine model of the alabos scheduling and resource-allocation    *)
(* engine: ResourceManager (resource/resource_manager.py),                 *)
(* ResourceScheduler (scheduler/scheduler.py), TaskExecutor                *)
(* (scheduler/task_executor.py) and the Job/Task/Device rows they read     *)
(* and write (models/*.py).                                                *)
(*                                                                         *)
(* Identifiers (UUIDs in the code) are small naturals; 0 stands for None.  *)
(***************************************************************************)
EXTENDS Integers, Sequences, FiniteSets, TLC

\* ------------------------------------------------------------------ bounds
NumDevices == 2
NumTasks == 3
NumJobs == 1
NumTypes == 1
NumRequestingTasks == 2
MaxReqTypes == 2
MaxSampleCount == 2
MaxPending == 2
MaxFailedCount == 2
MaxExecuting == 1
NumExecutedTasks == 2
MaxTaskCount == 3
NumWorkflows == 2
MaxWorkflowJobs == 1
MaxBacklog == 3

Devices == 1..NumDevices
Tasks == 1..NumTasks
Jobs == 1..NumJobs
DeviceTypes == 1..NumTypes
\* The tasks on whose behalf resources are requested from the ResourceManager
RequestingTasks == 1..NumRequestingTasks
\* The tasks the executor is called for
ExecutedTasks == 1..NumExecutedTasks
Workflows == 1..NumWorkflows

\* ------------------------------------------------------- the device rows
\* Device.device_type_id: devices 1 and 2 share type 1, devices 3 and 4 type 2, ...
device_type_id(d) == ((d - 1) \div 2) + 1

\* Device.sample_positions, as the list of the positions' "name" values.
\* Device d carries the d positions named 1..d, so that devices differ in
\* capacity and position names are shared between devices (the
\* reserved-position table of the ResourceManager is keyed by name alone).
sample_positions(d) == [i \in 1..d |-> i]

\* ---------------------------------------------------------- the task rows
\* Task.prev_tasks: the tasks form one linear chain 1 -> 2 -> 3 -> ...
prev_tasks(t) == IF t = 1 THEN <<>> ELSE <<t - 1>>

\* Task.job_id
job_id(t) == ((t - 1) % NumJobs) + 1

\* TaskTemplate.required_device_types of the task's template
template_required_device_types(t) == <<1>>

VARIABLES
    \* Rows of the entity store
    devices,                      \* Device: status, is_available, current_task_id
    tasks,                        \* Task: status, assigned_device_id, error_message
                                  \* (TRUE: a non-empty text)
    jobs,                         \* Job: status, the counters, progress_percentage
    workflows,                    \* Workflow: status; jobs: how many Job rows name it
    \* ResourceManager
    active_allocations,           \* dict device_id -> ResourceAllocation
    sample_position_availability, \* keys of the dict position name -> lock expiry
    pending_requests,             \* list of ResourceRequest (the backlog)
    rm_calls,                     \* per calling thread: where its request_resources or
                                  \* release_resources call stands
    \* ResourceScheduler
    sched_allocations,            \* keys of scheduler.active_allocations
    scheduler,                    \* running: the flag; loop: where run_scheduler_loop is
                                  \* ("pass", "sleep", or "ended")
    \* TaskExecutor
    executing,                    \* per task: execute_task calls awaiting the implementation
    scheduled_releases,           \* releases scheduled by cancel_task (asyncio.create_task)
    \* history: the call made last, with what it returned
    last_call

rm_vars == <<active_allocations, sample_position_availability, pending_requests, rm_calls>>
core_vars == <<tasks, jobs, workflows, sched_allocations, scheduler, executing,
              scheduled_releases>>
vars == <<devices, tasks, jobs, workflows, active_allocations, sample_position_availability,
          pending_requests, rm_calls, sched_allocations, scheduler, executing,
          scheduled_releases, last_call>>

\* ----------------------------------------------------------------- helpers
Range(s) == {s[i] : i \in DOMAIN s}

Min(a, b) == IF a < b THEN a ELSE b

\* Python's s[:n] for n >= 0
Take(s, n) == SubSeq(s, 1, Min(n, Len(s)))

RECURSIVE Flatten(_)
Flatten(ss) == IF Len(ss) = 0 THEN <<>> ELSE Head(ss) \o Flatten(Tail(ss))

\* The lists over S of length lo..hi, up to the order of their elements: a
\* required_device_types list is read only through len() and membership
\* (Device.device_type_id.in_), so one list per multiset is enough.
ListsOf(S, lo, hi) ==
    {s \in UNION {[1..n -> S] : n \in lo..hi} :
        \A i, j \in DOMAIN s : i < j => s[i] <= s[j]}

\* The states a device reports: online, offline, or online but not available.
DeviceStates == {<<"online", TRUE>>, <<"offline", TRUE>>, <<"online", FALSE>>}

\* The orders in which an unordered query (no ORDER BY) may return the
\* device rows: every permutation of the devices.
StoreOrders == {o \in [1..NumDevices -> Devices] : \A i, j \in 1..NumDevices : i # j => o[i] # o[j]}

\* A call record: the operation, the device and task it was about (0: none),
\* whether it succeeded, and the set it reports (backlog indices fulfilled,
\* tasks started).
Call(op, device_id, task_id, ok, fulfilled) ==
    [op |-> op, device_id |-> device_id, task_id |-> task_id, ok |-> ok,
     fulfilled |-> fulfilled]

\* The task events a call publishes through event_producer.send_task_event,
\* as <<task, event type>> pairs.
task_events(call) ==
    CASE call.op = "run_scheduler_loop" -> {<<t, "started">> : t \in call.fulfilled}
      [] call.op = "execute_task" -> {<<call.task_id, "started">>}
      [] call.op \in {"process_task_result", "default_task_execution"} ->
            {<<call.task_id, IF call.ok THEN "completed" ELSE "failed">>}
      [] call.op = "handle_task_error" -> {<<call.task_id, "failed">>}
      [] call.op \in {"cancel_task", "route_cancel_task"} /\ call.ok ->
            {<<call.task_id, "cancelled">>}
      [] OTHER -> {}

\* ------------------------------------------------------- ResourceManager
ResourceRequest(task_id, required_device_types, sample_count) ==
    [task_id |-> task_id, required_device_types |-> required_device_types,
     sample_count |-> sample_count]

ResourceAllocation(device_id, task_id, positions) ==
    [device_id |-> device_id, task_id |-> task_id, sample_positions |-> positions]

\* What _find_available_resources returns: None, or an allocation.
NoneFound == [found |-> FALSE, allocation |-> ResourceAllocation(0, 0, <<>>)]
Found(a) == [found |-> TRUE, allocation |-> a]

\* A thread that is not inside a ResourceManager call; inside one, pc names
\* the statement it executes next, allocation the local variable of that
\* name and device_id the argument of release_resources.
NoCall == [pc |-> "idle", allocation |-> ResourceAllocation(0, 0, <<>>), device_id |-> 0]

\* Variant of get_available_devices that does not look at the device's state.
get_available_devices_any_state(required_device_types, order) ==
    SelectSeq(order, LAMBDA d : device_type_id(d) \in Range(required_device_types))

\* _get_available_devices: the rows of the required types that are online
\* and available, in the order the store returned them.
get_available_devices(required_device_types, order) ==
    SelectSeq(order, LAMBDA d :
        /\ device_type_id(d) \in Range(required_device_types)
        /\ devices[d].status = "online"
        /\ devices[d].is_available)

\* Variant of get_available_sample_positions that forgets the reserved-position
\* table.
get_available_sample_positions_unreserved(device, count, spa) ==
    Take(sample_positions(device), count)

\* _get_available_sample_positions: the device's position names that are not
\* reserved, cut to count.
get_available_sample_positions(device, count, spa) ==
    IF Len(sample_positions(device)) = 0
    THEN <<>>
    ELSE Take(SelectSeq(sample_positions(device), LAMBDA p : p \notin spa), count)

\* Variant of find_available_resources without the conflict check of lines
\* 90-110: it selects among all available devices.
find_available_resources_no_conflicts(request, order, allocs, spa) ==
    LET available_devices == get_available_devices(request.required_device_types, order)
        selected_devices == Take(available_devices, Len(request.required_device_types))
        positions(d) == get_available_sample_positions(d, request.sample_count, spa)
    IN  IF Len(available_devices) = 0 THEN NoneFound
        ELSE IF \E i \in DOMAIN selected_devices :
                    Len(positions(selected_devices[i])) < request.sample_count
        THEN NoneFound
        ELSE Found(ResourceAllocation(selected_devices[1], request.task_id,
                Flatten([i \in DOMAIN selected_devices |-> positions(selected_devices[i])])))

\* Variant of find_available_resources that hands out the positions it finds
\* even when they are fewer than the request asks for.
find_available_resources_any_positions(request, order, allocs, spa) ==
    LET available_devices == get_available_devices(request.required_device_types, order)
        available_non_conflicting ==
            SelectSeq(available_devices, LAMBDA d : d \notin DOMAIN allocs)
        selected_devices ==
            Take(available_non_conflicting, Len(request.required_device_types))
        positions(d) == get_available_sample_positions(d, request.sample_count, spa)
    IN  IF Len(available_non_conflicting) = 0 THEN NoneFound
        ELSE Found(ResourceAllocation(selected_devices[1], request.task_id,
                Flatten([i \in DOMAIN selected_devices |-> positions(selected_devices[i])])))

\* Variant of find_available_resources that, when a selected device has too
\* few free positions, keeps what the selected devices with enough positions
\* give instead of giving up.
find_available_resources_keeping_partial(request, order, allocs, spa) ==
    LET available_devices == get_available_devices(request.required_device_types, order)
        available_non_conflicting ==
            SelectSeq(available_devices, LAMBDA d : d \notin DOMAIN allocs)
        selected_devices ==
            Take(available_non_conflicting, Len(request.required_device_types))
        positions(d) == get_available_sample_positions(d, request.sample_count, spa)
        sufficient ==
            SelectSeq(selected_devices,
                      LAMBDA d : Len(positions(d)) >= request.sample_count)
    IN  IF Len(sufficient) = 0 THEN NoneFound
        ELSE Found(ResourceAllocation(sufficient[1], request.task_id,
                Flatten([i \in DOMAIN sufficient |-> positions(sufficient[i])])))

\* _find_available_resources, with the store's row order as a parameter.
\* Both ResourceConflict raises are caught by the function's own
\* "except Exception" and turn into None.
find_available_resources(request, order, allocs, spa) ==
    LET available_devices == get_available_devices(request.required_device_types, order)
        conflicting_devices == Range(available_devices) \cap DOMAIN allocs
        available_non_conflicting ==
            SelectSeq(available_devices, LAMBDA d : d \notin conflicting_devices)
        k == Len(request.required_device_types)
        selected_devices ==
            IF conflicting_devices # {}
            THEN Take(available_non_conflicting, k)
            ELSE Take(available_devices, k)
        positions(d) == get_available_sample_positions(d, request.sample_count, spa)
        insufficient ==
            \E i \in DOMAIN selected_devices :
                Len(positions(selected_devices[i])) < request.sample_count
        device_allocations ==
            [i \in DOMAIN selected_devices |->
                Take(positions(selected_devices[i]), request.sample_count)]
    IN  IF Len(available_devices) = 0 THEN NoneFound
        ELSE IF conflicting_devices # {} /\ Len(available_non_conflicting) = 0
        THEN NoneFound
        ELSE IF insufficient THEN NoneFound
        ELSE Found(ResourceAllocation(selected_devices[1], request.task_id,
                                      Flatten(device_allocations)))

\* Variant of allocate_resources that records the allocation without
\* reserving its positions.
allocate_resources_without_reserving(allocation, allocs, spa) ==
    [allocs |-> (allocation.device_id :> allocation) @@ allocs,
     spa |-> spa]

\* _allocate_resources: the new allocation table and reserved-position table.
allocate_resources(allocation, allocs, spa) ==
    [allocs |-> (allocation.device_id :> allocation) @@ allocs,
     spa |-> spa \cup Range(allocation.sample_positions)]

\* Variant of process_pending_requests that walks the backlog from its newest
\* request to its oldest.
RECURSIVE process_pending_requests_newest_first(_, _, _, _, _, _)
process_pending_requests_newest_first(i, pend, allocs, spa, remaining, fulfilled) ==
    IF i > Len(pend)
    THEN {[allocs |-> allocs, spa |-> spa, pending |-> remaining, fulfilled |-> fulfilled]}
    ELSE UNION {
        LET at == Len(pend) + 1 - i
            r == find_available_resources(pend[at], order, allocs, spa)
            n == allocate_resources(r.allocation, allocs, spa)
        IN  IF r.found
            THEN process_pending_requests_newest_first(i + 1, pend, n.allocs, n.spa,
                                          remaining, fulfilled \cup {at})
            ELSE process_pending_requests_newest_first(i + 1, pend, allocs, spa,
                                          <<pend[at]>> \o remaining, fulfilled)
        : order \in StoreOrders }

\* _process_pending_requests from backlog index i on: the set of outcomes
\* (one per choice of row orders): tables, remaining requests, and the
\* indices of the requests fulfilled.
RECURSIVE process_pending_requests(_, _, _, _, _, _)
process_pending_requests(i, pend, allocs, spa, remaining, fulfilled) ==
    IF i > Len(pend)
    THEN {[allocs |-> allocs, spa |-> spa, pending |-> remaining, fulfilled |-> fulfilled]}
    ELSE UNION {
        LET r == find_available_resources(pend[i], order, allocs, spa)
            n == allocate_resources(r.allocation, allocs, spa)
        IN  IF r.found
            THEN process_pending_requests(i + 1, pend, n.allocs, n.spa,
                                          remaining, fulfilled \cup {i})
            ELSE process_pending_requests(i + 1, pend, allocs, spa,
                                          Append(remaining, pend[i]), fulfilled)
        : order \in StoreOrders }

\* Variant of release_resources that reprocesses the backlog whether or not
\* the device had an allocation.
release_resources_always_reprocess(device_id, allocs, spa, pend) ==
    process_pending_requests(
        1, pend,
        [d \in DOMAIN allocs \ {device_id} |-> allocs[d]],
        IF device_id \in DOMAIN allocs
        THEN spa \ Range(allocs[device_id].sample_positions) ELSE spa,
        <<>>, {})

\* release_resources: the set of outcomes of releasing device_id.
release_resources(device_id, allocs, spa, pend) ==
    IF device_id \in DOMAIN allocs
    THEN process_pending_requests(
            1, pend,
            [d \in DOMAIN allocs \ {device_id} |-> allocs[d]],
            spa \ Range(allocs[device_id].sample_positions),
            <<>>, {})
    ELSE {[allocs |-> allocs, spa |-> spa, pending |-> pend, fulfilled |-> {}]}

\* ------------------------------------------------------------------- Init
\* Devices are online or offline and in service; every task is pending; the
\* tasks either all share device 1 as their assigned device, or task 1 has
\* none and task t > 1 has device t-1 (the last device, when there are fewer
\* devices); every job counts its tasks in total_tasks and nothing else; the
\* managers are as their constructors leave them, and the application's
\* lifespan has started the scheduler.
Init ==
    /\ devices \in [Devices -> {[status |-> s, is_available |-> TRUE, current_task_id |-> 0]
                                 : s \in {"online", "offline"}}]
    /\ \E shared \in BOOLEAN :
        tasks = [t \in Tasks |->
                    [status |-> "pending",
                     assigned_device_id |-> IF shared THEN 1 ELSE Min(t - 1, NumDevices),
                     error_message |-> FALSE]]
    /\ jobs = [j \in Jobs |->
                [status |-> "created",
                 total_tasks |-> Cardinality({t \in Tasks : job_id(t) = j}),
                 completed_tasks |-> 0, failed_tasks |-> 0, cancelled_tasks |-> 0,
                 progress_percentage |-> 0]]
    /\ workflows = [w \in Workflows |-> [status |-> "draft", jobs |-> 0]]
    /\ active_allocations = <<>>
    /\ sample_position_availability = {}
    /\ pending_requests = <<>>
    /\ rm_calls = [th \in RequestingTasks |-> NoCall]
    /\ sched_allocations = {}
    /\ scheduler = [running |-> TRUE, loop |-> "pass"]
    /\ executing = [t \in Tasks |-> 0]
    /\ scheduled_releases = {}
    /\ last_call = Call("init", 0, 0, FALSE, {})

\* The ResourceManager on its own, which reads no task row: the tasks are as
\* in the second layout of Init.
InitRM == Init /\ tasks[1].assigned_device_id = 0

\* ---------------------------------------------------------------- actions
\* ResourceManager.request_resources(request, session)
RequestResources(task_id, types, count) ==
    \E order \in StoreOrders :
        LET request == ResourceRequest(task_id, types, count)
            r == find_available_resources(request, order, active_allocations,
                                          sample_position_availability)
            n == allocate_resources(r.allocation, active_allocations,
                                    sample_position_availability)
        IN  /\ IF r.found
               THEN /\ active_allocations' = n.allocs
                    /\ sample_position_availability' = n.spa
                    /\ UNCHANGED pending_requests
               ELSE /\ Len(pending_requests) < MaxPending
                    /\ pending_requests' = Append(pending_requests, request)
                    /\ UNCHANGED <<active_allocations, sample_position_availability>>
            /\ last_call' = Call("request_resources",
                                 IF r.found THEN r.allocation.device_id ELSE 0,
                                 task_id, r.found, {})
            /\ UNCHANGED <<devices, core_vars, rm_calls>>

\* ResourceManager.release_resources(device_id)
ReleaseResources(device_id) ==
    \E out \in release_resources(device_id, active_allocations,
                                 sample_position_availability, pending_requests) :
        /\ active_allocations' = out.allocs
        /\ sample_position_availability' = out.spa
        /\ pending_requests' = out.pending
        /\ last_call' = Call("release_resources", device_id, 0,
                             device_id \in DOMAIN active_allocations, out.fulfilled)
        /\ UNCHANGED <<devices, core_vars, rm_calls>>

\* ResourceManager.optimize_allocation(session): reprocesses the backlog.
OptimizeAllocation ==
    \E out \in process_pending_requests(1, pending_requests, active_allocations,
                                        sample_position_availability, <<>>, {}) :
        /\ active_allocations' = out.allocs
        /\ sample_position_availability' = out.spa
        /\ pending_requests' = out.pending
        /\ last_call' = Call("optimize_allocation", 0, 0, out.fulfilled # {},
                             out.fulfilled)
        /\ UNCHANGED <<devices, core_vars, rm_calls>>

\* The device capability provider reports a device's state: it goes offline
\* or online, or is taken out of / put back into service.
DeviceEvent(d, state) ==
    /\ devices' = [devices EXCEPT ![d].status = state[1], ![d].is_available = state[2]]
    /\ last_call' = Call("device_event", 0, 0, FALSE, {})
    /\ UNCHANGED <<rm_vars, core_vars>>

NextRM ==
    \/ \E t \in RequestingTasks, types \in ListsOf(DeviceTypes, 1, MaxReqTypes),
          count \in 0..MaxSampleCount : RequestResources(t, types, count)
    \/ \E d \in Devices : ReleaseResources(d)
    \/ OptimizeAllocation
    \/ \E d \in Devices, state \in DeviceStates : DeviceEvent(d, state)

SpecRM == InitRM /\ [][NextRM]_vars

\* ----------------------------------------------------------------- Device
\* Device.is_online
is_online(device) == device.status = "online" /\ device.is_available

\* -------------------------------------------------------------------- Job
\* Job.is_completed
is_completed(job) == job.status \in {"completed", "failed", "cancelled"}

\* JobStatus
JobStatuses ==
    {"created", "queued", "running", "completed", "failed", "cancelled", "paused"}

\* Variant of calculate_progress without the cap at 100.
calculate_progress_uncapped(job) ==
    IF job.total_tasks = 0
    THEN IF is_completed(job) THEN 100 ELSE 0
    ELSE (job.completed_tasks * 100 + job.failed_tasks * 50
            + job.cancelled_tasks * 25) \div job.total_tasks

\* Job.calculate_progress
calculate_progress(job) ==
    IF job.total_tasks = 0
    THEN IF is_completed(job) THEN 100 ELSE 0
    ELSE Min(100, (job.completed_tasks * 100 + job.failed_tasks * 50
                    + job.cancelled_tasks * 25) \div job.total_tasks)

\* ------------------------------------------------------ ResourceScheduler
\* _check_dependencies_satisfied
check_dependencies_satisfied(t, tk) ==
    \A i \in DOMAIN prev_tasks(t) :
        /\ prev_tasks(t)[i] \in Tasks
        /\ tk[prev_tasks(t)[i]].status = "completed"

\* _check_resource_availability
check_resource_availability(t, tk, dv, allocs) ==
    LET required_device_types == template_required_device_types(t)
        available_devices ==
            {d \in Devices : /\ device_type_id(d) \in Range(required_device_types)
                             /\ dv[d].status = "online"
                             /\ dv[d].is_available}
        device_id == tk[t].assigned_device_id
    IN  /\ Len(required_device_types) > 0
            => Cardinality(available_devices) >= Len(required_device_types)
        /\ device_id # 0 => (is_online(dv[device_id]) /\ device_id \notin allocs)

\* can_task_run: the decision's can_run
can_task_run(t, tk, dv, allocs) ==
    /\ tk[t].status \in {"pending", "ready"}
    /\ check_dependencies_satisfied(t, tk)
    /\ check_resource_availability(t, tk, dv, allocs)

\* ResourceScheduler.allocate_resources on the pass's state st; ok is the
\* value returned.
scheduler_allocate_resources(t, st) ==
    LET device_id == st.tasks[t].assigned_device_id
    IN  IF device_id # 0
        THEN [tasks |-> [st.tasks EXCEPT ![t].status = "running"],
              devices |-> [st.devices EXCEPT ![device_id].status = "busy",
                                             ![device_id].current_task_id = t],
              allocs |-> st.allocs \cup {device_id},
              started |-> st.started \cup {t}]
        ELSE st

\* One pass of run_scheduler_loop over the tasks fetched as pending or ready,
\* in any row order: the set of states the pass may end in.
RECURSIVE scheduler_pass(_, _)
scheduler_pass(todo, st) ==
    IF todo = {}
    THEN {st}
    ELSE UNION {
        scheduler_pass(todo \ {t},
            IF can_task_run(t, st.tasks, st.devices, st.allocs)
            THEN scheduler_allocate_resources(t, st)
            ELSE st)
        : t \in todo }

\* ----------------------------------------------------------- TaskExecutor
\* _release_task_resources
release_task_resources(t, tk, dv) ==
    LET device_id == tk[t].assigned_device_id
    IN  IF device_id # 0
        THEN [dv EXCEPT ![device_id].status = "online",
                        ![device_id].current_task_id = 0]
        ELSE dv

\* The status of the result _default_task_execution returns.
default_task_execution == "completed"

\* Variant of run_task_implementation in which an exception of the custom
\* implementation makes the result a failure.
run_task_implementation_failing(custom) ==
    CASE custom = "none" -> default_task_execution
      [] custom = "raised" -> "failed"
      [] OTHER -> custom

\* _run_task_implementation: the status of the result it returns, by what
\* the template's implementation class did: there is none ("none"), resolving
\* or running it raised ("raised"), or it returned a result with that status.
run_task_implementation(custom) ==
    CASE custom \in {"none", "raised"} -> default_task_execution
      [] OTHER -> custom

\* _process_task_result: the task and job rows after a result with the given
\* status has been stored.
process_task_result(t, result_status, tk, jb) ==
    LET new_tasks ==
            [tk EXCEPT ![t].status =
                            IF result_status = "completed" THEN "completed" ELSE "failed",
                       ![t].error_message =
                            IF result_status # "completed" THEN TRUE ELSE @]
        j == job_id(t)
        total_tasks == Cardinality({u \in Tasks : job_id(u) = j})
        completed_tasks ==
            Cardinality({u \in Tasks : job_id(u) = j /\ new_tasks[u].status = "completed"})
    IN  [tasks |-> new_tasks,
         jobs |-> [jb EXCEPT
            ![j].completed_tasks = completed_tasks,
            ![j].progress_percentage =
                IF total_tasks > 0 THEN (completed_tasks * 100) \div total_tasks ELSE 100,
            ![j].status = IF completed_tasks = total_tasks THEN "completed" ELSE @]]

\* Variant of handle_task_error that leaves the job's counters alone.
handle_task_error_uncounted(t, tk, jb) ==
    [tasks |-> [tk EXCEPT ![t].status = "failed", ![t].error_message = TRUE],
     jobs |-> jb]

\* _handle_task_error, up to the release: the task and job rows.
handle_task_error(t, tk, jb) ==
    LET j == job_id(t)
        counted == [jb EXCEPT ![j].failed_tasks = @ + 1]
    IN  [tasks |-> [tk EXCEPT ![t].status = "failed", ![t].error_message = TRUE],
         jobs |-> [counted EXCEPT ![j].progress_percentage = calculate_progress(counted[j])]]

\* --------------------------------------------------------- core actions
\* One pass of ResourceScheduler.run_scheduler_loop
SchedulerPass ==
    /\ scheduler.running
    /\ \E out \in scheduler_pass(
                {t \in Tasks : tasks[t].status \in {"pending", "ready"}},
                [tasks |-> tasks, devices |-> devices, allocs |-> sched_allocations,
                 started |-> {}]) :
        /\ tasks' = out.tasks
        /\ devices' = out.devices
        /\ sched_allocations' = out.allocs
        /\ last_call' = Call("run_scheduler_loop", 0, 0, out.started # {}, out.started)
        /\ UNCHANGED <<rm_vars, scheduler, workflows, jobs, executing, scheduled_releases>>

\* ResourceScheduler.release_resources(task_id, session)
SchedulerRelease(t) ==
    LET device_id == tasks[t].assigned_device_id
        held == device_id # 0 /\ device_id \in sched_allocations
    IN  /\ IF held
           THEN /\ sched_allocations' = sched_allocations \ {device_id}
                /\ devices' = [devices EXCEPT ![device_id].status = "online",
                                              ![device_id].current_task_id = 0]
           ELSE UNCHANGED <<sched_allocations, devices>>
        /\ last_call' = Call("scheduler_release_resources", 0, t, held, {})
        /\ UNCHANGED <<rm_vars, scheduler, workflows, tasks, jobs, executing, scheduled_releases>>

\* TaskExecutor.execute_task(task_id) up to the await of the implementation:
\* the task is marked running.
ExecStart(t) ==
    /\ executing[t] < MaxExecuting
    /\ tasks' = [tasks EXCEPT ![t].status = "running"]
    /\ executing' = [executing EXCEPT ![t] = @ + 1]
    /\ last_call' = Call("execute_task", 0, t, TRUE, {})
    /\ UNCHANGED <<rm_vars, scheduler, workflows, devices, jobs, sched_allocations, scheduled_releases>>

\* TaskExecutor.execute_task from the return of the implementation on, when
\* it returned a result: _process_task_result, then _release_task_resources.
ExecResult(t, result_status) ==
    LET out == process_task_result(t, result_status, tasks, jobs)
    IN  /\ executing[t] > 0
        /\ executing' = [executing EXCEPT ![t] = @ - 1]
        /\ tasks' = out.tasks
        /\ jobs' = out.jobs
        /\ devices' = release_task_resources(t, out.tasks, devices)
        /\ last_call' = Call("process_task_result", 0, t,
                             result_status = "completed", {})
        /\ UNCHANGED <<rm_vars, scheduler, workflows, sched_allocations, scheduled_releases>>

\* TaskExecutor.execute_task when running the implementation raised:
\* _handle_task_error, which releases too.
ExecError(t) ==
    LET out == handle_task_error(t, tasks, jobs)
    IN  /\ executing[t] > 0
        /\ jobs[job_id(t)].failed_tasks < MaxFailedCount
        /\ executing' = [executing EXCEPT ![t] = @ - 1]
        /\ tasks' = out.tasks
        /\ jobs' = out.jobs
        /\ devices' = release_task_resources(t, out.tasks, devices)
        /\ last_call' = Call("handle_task_error", 0, t, FALSE, {})
        /\ UNCHANGED <<rm_vars, scheduler, workflows, sched_allocations, scheduled_releases>>

\* TaskExecutor.execute_task when the template's implementation class raised
\* inside _run_task_implementation: the exception is caught and logged there,
\* _default_task_execution runs instead and returns a completed result,
\* which is processed as any result is.
ExecImplementationRaised(t) ==
    LET out == process_task_result(t, run_task_implementation("raised"), tasks, jobs)
    IN  /\ executing[t] > 0
        /\ executing' = [executing EXCEPT ![t] = @ - 1]
        /\ tasks' = out.tasks
        /\ jobs' = out.jobs
        /\ devices' = release_task_resources(t, out.tasks, devices)
        /\ last_call' = Call("default_task_execution", 0, t, TRUE, {})
        /\ UNCHANGED <<rm_vars, scheduler, workflows, sched_allocations, scheduled_releases>>

\* TaskExecutor.cancel_task(task_id): the release is scheduled, not run.
CancelTask(t) ==
    /\ IF tasks[t].status = "running"
       THEN /\ tasks' = [tasks EXCEPT ![t].status = "cancelled"]
            /\ scheduled_releases' = scheduled_releases \cup {t}
       ELSE UNCHANGED <<tasks, scheduled_releases>>
    /\ last_call' = Call("cancel_task", 0, t, tasks[t].status = "running", {})
    /\ UNCHANGED <<rm_vars, scheduler, workflows, devices, jobs, sched_allocations, executing>>

\* The _release_task_resources coroutine that cancel_task scheduled runs.
ScheduledRelease(t) ==
    /\ t \in scheduled_releases
    /\ scheduled_releases' = scheduled_releases \ {t}
    /\ devices' = release_task_resources(t, tasks, devices)
    /\ last_call' = Call("release_task_resources", 0, t, TRUE, {})
    /\ UNCHANGED <<rm_vars, scheduler, workflows, tasks, jobs, sched_allocations, executing>>

Next ==
    \/ SchedulerPass
    \/ \E t \in Tasks : SchedulerRelease(t)
    \/ \E t \in ExecutedTasks : ExecStart(t)
    \/ \E t \in ExecutedTasks, r \in {"completed", "failed"} : ExecResult(t, r)
    \/ \E t \in ExecutedTasks : ExecError(t)
    \/ \E t \in ExecutedTasks : ExecImplementationRaised(t)
    \/ \E t \in ExecutedTasks : CancelTask(t)
    \/ \E t \in ExecutedTasks : ScheduledRelease(t)

Spec == Init /\ [][Next]_vars

\* ------------------------------------------- the scheduling loop at work
\* TaskExecutor.execute_task called for a task the scheduler has started.
Dispatch(t) ==
    /\ tasks[t].status = "running"
    /\ ExecStart(t)

\* The scheduling loop runs, the tasks it starts are handed to the executor
\* and every execution returns a completed result; ResourceScheduler's
\* release_resources may be called from outside at any time.
NextLoop ==
    \/ SchedulerPass
    \/ \E t \in Tasks : Dispatch(t)
    \/ \E t \in Tasks : ExecResult(t, "completed")
    \/ \E t \in Tasks : SchedulerRelease(t)

\* run_scheduler_loop keeps making passes while it runs, a started task is
\* dispatched, and an awaited implementation returns; nothing obliges anyone
\* to call release_resources.
FairLoop ==
    /\ WF_vars(SchedulerPass)
    /\ \A t \in Tasks : WF_vars(Dispatch(t))
    /\ \A t \in Tasks : WF_vars(ExecResult(t, "completed"))

SpecLoop == Init /\ [][NextLoop]_vars /\ FairLoop

\* ------------------------------- ResourceManager requests and the executor
\* TaskExecutor.execute_task called for a task that holds an allocation of
\* the ResourceManager.
RunAllocated(t) ==
    /\ \E d \in DOMAIN active_allocations : active_allocations[d].task_id = t
    /\ ExecStart(t)

\* Callers request devices (one device type, no sample positions) and
\* release them through the ResourceManager and run the tasks that were
\* allocated one; the scheduling loop makes its passes
\* and every execution returns a completed result.
NextBacklog ==
    \/ \E t \in RequestingTasks, types \in ListsOf(DeviceTypes, 1, 1) :
            RequestResources(t, types, 0)
    \/ \E d \in Devices : ReleaseResources(d)
    \/ \E t \in RequestingTasks : RunAllocated(t)
    \/ \E t \in RequestingTasks : ExecResult(t, "completed")
    \/ SchedulerPass

\* What runs without being called from outside: the scheduling loop and the
\* return of an awaited implementation.
FairBacklog ==
    /\ WF_vars(SchedulerPass)
    /\ \A t \in RequestingTasks : WF_vars(ExecResult(t, "completed"))

SpecBacklog == Init /\ [][NextBacklog]_vars /\ FairBacklog

\* ------------------------------------------ the scheduling loop in detail
\* Variant of scheduler_pass_with_errors that moves a task with a negative
\* decision to ready.
RECURSIVE scheduler_pass_marking_ready(_, _, _)
scheduler_pass_marking_ready(todo, st, failing) ==
    IF todo = {}
    THEN {st}
    ELSE UNION {
        scheduler_pass_marking_ready(todo \ {t},
            IF t \notin failing /\ can_task_run(t, st.tasks, st.devices, st.allocs)
            THEN scheduler_allocate_resources(t, st)
            ELSE [st EXCEPT !.tasks[t].status = "ready"],
            failing)
        : t \in todo }

\* One pass of run_scheduler_loop in which evaluating or allocating the tasks
\* of the set failing raises: can_task_run and allocate_resources catch the
\* exception and answer no, and the pass goes on with the next task.
RECURSIVE scheduler_pass_with_errors(_, _, _)
scheduler_pass_with_errors(todo, st, failing) ==
    IF todo = {}
    THEN {st}
    ELSE UNION {
        scheduler_pass_with_errors(todo \ {t},
            IF t \notin failing /\ can_task_run(t, st.tasks, st.devices, st.allocs)
            THEN scheduler_allocate_resources(t, st)
            ELSE st,
            failing)
        : t \in todo }

\* Variant of run_scheduler_loop_step in which an exception in the loop body
\* ends the loop.
run_scheduler_loop_step_ending(sched, raised) ==
    [sched EXCEPT !.loop = IF raised THEN "ended" ELSE "sleep"]

\* run_scheduler_loop after the body of one iteration: asleep for 5 seconds,
\* or for 10 when the body raised.
run_scheduler_loop_step(sched, raised) ==
    [sched EXCEPT !.loop = "sleep"]

\* One iteration of run_scheduler_loop up to its sleep.
LoopPass(failing) ==
    /\ scheduler.running
    /\ scheduler.loop = "pass"
    /\ \E out \in scheduler_pass_with_errors(
                {t \in Tasks : tasks[t].status \in {"pending", "ready"}},
                [tasks |-> tasks, devices |-> devices, allocs |-> sched_allocations,
                 started |-> {}],
                failing) :
        /\ tasks' = out.tasks
        /\ devices' = out.devices
        /\ sched_allocations' = out.allocs
        /\ last_call' = Call("run_scheduler_loop", 0, 0, out.started # {}, out.started)
    /\ scheduler' = run_scheduler_loop_step(scheduler, FALSE)
    /\ UNCHANGED <<rm_vars, workflows, jobs, executing, scheduled_releases>>

\* One iteration of run_scheduler_loop in which opening the session or
\* fetching the tasks raises.
LoopPassAborted ==
    /\ scheduler.running
    /\ scheduler.loop = "pass"
    /\ scheduler' = run_scheduler_loop_step(scheduler, TRUE)
    /\ last_call' = Call("run_scheduler_loop", 0, 0, FALSE, {})
    /\ UNCHANGED <<rm_vars, devices, tasks, workflows, jobs, sched_allocations,
                   executing, scheduled_releases>>

\* The sleep of run_scheduler_loop is over: back to "while self.running".
LoopWake ==
    /\ scheduler.loop = "sleep"
    /\ scheduler' = [scheduler EXCEPT !.loop = IF scheduler.running THEN "pass" ELSE "ended"]
    /\ last_call' = Call("sleep", 0, 0, TRUE, {})
    /\ UNCHANGED <<rm_vars, devices, tasks, workflows, jobs, sched_allocations,
                   executing, scheduled_releases>>

\* ResourceScheduler.start()
SchedulerStart ==
    /\ IF scheduler.running
       THEN UNCHANGED scheduler
       ELSE scheduler' = [running |-> TRUE, loop |-> "pass"]
    /\ last_call' = Call("start", 0, 0, ~scheduler.running, {})
    /\ UNCHANGED <<rm_vars, devices, tasks, workflows, jobs, sched_allocations,
                   executing, scheduled_releases>>

\* ResourceScheduler.stop(): the loop's task is cancelled.
SchedulerStop ==
    /\ IF scheduler.running
       THEN scheduler' = [running |-> FALSE, loop |-> "ended"]
       ELSE UNCHANGED scheduler
    /\ last_call' = Call("stop", 0, 0, scheduler.running, {})
    /\ UNCHANGED <<rm_vars, devices, tasks, workflows, jobs, sched_allocations,
                   executing, scheduled_releases>>

\* ResourceScheduler.can_task_run(task_id, session) called on its own; raised:
\* a query raised and the decision is the negative one of the except branch.
CanTaskRun(t, raised) ==
    /\ last_call' = Call("can_task_run", 0, t,
                         ~raised /\ can_task_run(t, tasks, devices, sched_allocations), {})
    /\ UNCHANGED <<rm_vars, devices, tasks, workflows, jobs, sched_allocations,
                   scheduler, executing, scheduled_releases>>

\* The loop, its start and stop, decisions asked from outside, and the
\* executor running what the loop started.
NextSched ==
    \/ SchedulerStart
    \/ SchedulerStop
    \/ \E failing \in SUBSET Tasks : LoopPass(failing)
    \/ LoopPassAborted
    \/ LoopWake
    \/ \E t \in Tasks, raised \in BOOLEAN : CanTaskRun(t, raised)
    \/ \E t \in Tasks : Dispatch(t)
    \/ \E t \in Tasks : ExecResult(t, "completed")
    \/ \E t \in Tasks : SchedulerRelease(t)

\* The loop's asyncio task is scheduled as long as it exists.
FairSched ==
    /\ WF_vars(LoopPassAborted \/ \E failing \in SUBSET Tasks : LoopPass(failing))
    /\ WF_vars(LoopWake)

SpecSched == Init /\ [][NextSched]_vars /\ FairSched

\* ------------------------------- decisions on tasks with and without device
\* Task rows with any device assignment: each task has no assigned device or
\* one of the devices; the rest as in Init.
InitDecision ==
    /\ devices \in [Devices -> {[status |-> s, is_available |-> TRUE, current_task_id |-> 0]
                                 : s \in {"online", "offline"}}]
    /\ \E assigned \in [Tasks -> 0..NumDevices] :
        tasks = [t \in Tasks |->
                    [status |-> "pending",
                     assigned_device_id |-> assigned[t],
                     error_message |-> FALSE]]
    /\ jobs = [j \in Jobs |->
                [status |-> "created",
                 total_tasks |-> Cardinality({t \in Tasks : job_id(t) = j}),
                 completed_tasks |-> 0, failed_tasks |-> 0, cancelled_tasks |-> 0,
                 progress_percentage |-> 0]]
    /\ workflows = [w \in Workflows |-> [status |-> "draft", jobs |-> 0]]
    /\ active_allocations = <<>>
    /\ sample_position_availability = {}
    /\ pending_requests = <<>>
    /\ rm_calls = [th \in RequestingTasks |-> NoCall]
    /\ sched_allocations = {}
    /\ scheduler = [running |-> TRUE, loop |-> "pass"]
    /\ executing = [t \in Tasks |-> 0]
    /\ scheduled_releases = {}
    /\ last_call = Call("init", 0, 0, FALSE, {})

\* The scheduling loop, the executor running what the loop started to a
\* completed result, and decisions asked in between.
NextDecision ==
    \/ SchedulerPass
    \/ \E t \in Tasks : Dispatch(t)
    \/ \E t \in Tasks : ExecResult(t, "completed")
    \/ \E t \in Tasks : CanTaskRun(t, FALSE)

SpecDecision == InitDecision /\ [][NextDecision]_vars

\* ------------------------- ResourceManager with callers that give back
\* ResourceManager.release_resources called for a device that holds an
\* allocation.
ReleaseHeld(d) ==
    /\ d \in DOMAIN active_allocations
    /\ ReleaseResources(d)

\* Callers request one device with some sample positions, and release the
\* devices that were allocated.
NextRelease ==
    \/ \E t \in RequestingTasks, types \in ListsOf(DeviceTypes, 1, 1),
          count \in 0..MaxSampleCount : RequestResources(t, types, count)
    \/ \E d \in Devices : ReleaseHeld(d)

\* Every allocation is given back in the end; the ResourceManager has no
\* thread or timer of its own.
FairRelease == \A d \in Devices : WF_vars(ReleaseHeld(d))

SpecRelease == InitRM /\ [][NextRelease]_vars /\ FairRelease

\* ------------------------ ResourceManager called from several threads
\* ResourceManager's methods are plain functions without a lock; a thread
\* inside one may be suspended between two statements. The steps below cut
\* request_resources after _find_available_resources has returned, and
\* release_resources after the positions are given back and after the
\* allocation is deleted.

\* request_resources(request, session) up to the return of
\* _find_available_resources: with no allocation found the request is
\* queued and the call returns.
ThreadRequestFind(th, types, count) ==
    \E order \in StoreOrders :
        LET request == ResourceRequest(th, types, count)
            r == find_available_resources(request, order, active_allocations,
                                          sample_position_availability)
        IN  /\ rm_calls[th].pc = "idle"
            /\ IF r.found
               THEN /\ rm_calls' = [rm_calls EXCEPT ![th].pc = "allocate",
                                                    ![th].allocation = r.allocation]
                    /\ UNCHANGED pending_requests
               ELSE /\ Len(pending_requests) < MaxPending
                    /\ pending_requests' = Append(pending_requests, request)
                    /\ UNCHANGED rm_calls
            /\ last_call' = Call("find_available_resources",
                                 IF r.found THEN r.allocation.device_id ELSE 0,
                                 th, r.found, {})
            /\ UNCHANGED <<active_allocations, sample_position_availability,
                           devices, core_vars>>

\* request_resources from "self._allocate_resources(allocation)" on.
ThreadRequestAllocate(th) ==
    LET allocation == rm_calls[th].allocation
        n == allocate_resources(allocation, active_allocations,
                                sample_position_availability)
    IN  /\ rm_calls[th].pc = "allocate"
        /\ active_allocations' = n.allocs
        /\ sample_position_availability' = n.spa
        /\ rm_calls' = [rm_calls EXCEPT ![th] = NoCall]
        /\ last_call' = Call("request_resources", allocation.device_id, th, TRUE, {})
        /\ UNCHANGED <<pending_requests, devices, core_vars>>

\* release_resources(device_id) up to "del self.active_allocations[device_id]":
\* the allocation is read and its positions are given back.
ThreadReleaseBegin(th, device_id) ==
    /\ rm_calls[th].pc = "idle"
    /\ IF device_id \in DOMAIN active_allocations
       THEN /\ sample_position_availability' =
                    sample_position_availability
                        \ Range(active_allocations[device_id].sample_positions)
            /\ rm_calls' = [rm_calls EXCEPT ![th].pc = "delete",
                                            ![th].device_id = device_id]
       ELSE UNCHANGED <<sample_position_availability, rm_calls>>
    /\ last_call' = Call("release_positions", device_id, 0,
                         device_id \in DOMAIN active_allocations, {})
    /\ UNCHANGED <<active_allocations, pending_requests, devices, core_vars>>

\* "del self.active_allocations[device_id]": a KeyError, when the entry is
\* gone already, is caught and ends the call.
ThreadReleaseDelete(th) ==
    LET device_id == rm_calls[th].device_id
    IN  /\ rm_calls[th].pc = "delete"
        /\ IF device_id \in DOMAIN active_allocations
           THEN /\ active_allocations' =
                        [d \in DOMAIN active_allocations \ {device_id} |->
                            active_allocations[d]]
                /\ rm_calls' = [rm_calls EXCEPT ![th].pc = "reprocess"]
           ELSE /\ UNCHANGED active_allocations
                /\ rm_calls' = [rm_calls EXCEPT ![th] = NoCall]
        /\ last_call' = Call("delete_allocation", device_id, 0,
                             device_id \in DOMAIN active_allocations, {})
        /\ UNCHANGED <<sample_position_availability, pending_requests, devices, core_vars>>

\* release_resources from "self._process_pending_requests()" on.
ThreadReleaseReprocess(th) ==
    /\ rm_calls[th].pc = "reprocess"
    /\ \E out \in process_pending_requests(1, pending_requests, active_allocations,
                                           sample_position_availability, <<>>, {}) :
        /\ active_allocations' = out.allocs
        /\ sample_position_availability' = out.spa
        /\ pending_requests' = out.pending
        /\ last_call' = Call("release_resources", rm_calls[th].device_id, 0, TRUE,
                             out.fulfilled)
    /\ rm_calls' = [rm_calls EXCEPT ![th] = NoCall]
    /\ UNCHANGED <<devices, core_vars>>

\* Each thread requests one device with some sample positions for its task,
\* or releases a device.
NextThreads ==
    \/ \E th \in RequestingTasks, types \in ListsOf(DeviceTypes, 1, 1),
          count \in 0..MaxSampleCount : ThreadRequestFind(th, types, count)
    \/ \E th \in RequestingTasks : ThreadRequestAllocate(th)
    \/ \E th \in RequestingTasks, d \in Devices : ThreadReleaseBegin(th, d)
    \/ \E th \in RequestingTasks : ThreadReleaseDelete(th)
    \/ \E th \in RequestingTasks : ThreadReleaseReprocess(th)

SpecThreads == InitRM /\ [][NextThreads]_vars

\* --------------------------------------- reprocessing a backlog of any shape
\* The elements of a set of numbers in increasing order.
RECURSIVE SortedSeq(_)
SortedSeq(S) ==
    IF S = {}
    THEN <<>>
    ELSE LET m == CHOOSE x \in S : \A y \in S : x <= y
         IN  <<m>> \o SortedSeq(S \ {m})

\* A ResourceManager in the middle of its work: some devices hold an
\* allocation (device d for task d, of some of its positions, no position
\* name reserved twice), and up to MaxBacklog requests for one device wait in
\* the backlog; the rows are as in Init.
InitFifo ==
    /\ devices \in [Devices -> {[status |-> st, is_available |-> TRUE, current_task_id |-> 0]
                                 : st \in {"online", "offline"}}]
    /\ tasks = [t \in Tasks |->
                    [status |-> "pending",
                     assigned_device_id |-> Min(t - 1, NumDevices),
                     error_message |-> FALSE]]
    /\ jobs = [j \in Jobs |->
                [status |-> "created",
                 total_tasks |-> Cardinality({t \in Tasks : job_id(t) = j}),
                 completed_tasks |-> 0, failed_tasks |-> 0, cancelled_tasks |-> 0,
                 progress_percentage |-> 0]]
    /\ workflows = [w \in Workflows |-> [status |-> "draft", jobs |-> 0]]
    /\ \E held \in SUBSET Devices :
         \E pos \in [held -> SUBSET (1..NumDevices)] :
            /\ \A d \in held : pos[d] \subseteq Range(sample_positions(d))
            /\ \A d, e \in held : d # e => pos[d] \cap pos[e] = {}
            /\ active_allocations =
                    [d \in held |->
                        ResourceAllocation(d, ((d - 1) % NumRequestingTasks) + 1,
                                           SortedSeq(pos[d]))]
            /\ sample_position_availability = UNION {pos[d] : d \in held}
    /\ pending_requests \in
            UNION {[1..n -> {ResourceRequest(t, <<ty>>, count) :
                                t \in RequestingTasks, ty \in DeviceTypes,
                                count \in 0..MaxSampleCount}]
                   : n \in 0..MaxBacklog}
    /\ rm_calls = [th \in RequestingTasks |-> NoCall]
    /\ sched_allocations = {}
    /\ scheduler = [running |-> TRUE, loop |-> "pass"]
    /\ executing = [t \in Tasks |-> 0]
    /\ scheduled_releases = {}
    /\ last_call = Call("init", 0, 0, FALSE, {})

\* The two callers of _process_pending_requests.
NextFifo ==
    \/ \E d \in Devices : ReleaseResources(d)
    \/ OptimizeAllocation

SpecFifo == InitFifo /\ [][NextFifo]_vars

\* ------------------------------------------------------------ API routes
\* A status string no enumeration has; the routes take any string.
UnknownStatus == "archived"

\* valid_transitions of Job.can_transition_to
job_valid_transitions(status) ==
    CASE status = "created" -> {"queued", "cancelled"}
      [] status = "queued" -> {"running", "cancelled", "failed"}
      [] status = "running" -> {"completed", "failed", "cancelled", "paused"}
      [] status = "paused" -> {"running", "cancelled", "failed"}
      [] status = "completed" -> {}
      [] status = "failed" -> {"queued"}
      [] status = "cancelled" -> {}
      [] OTHER -> {}

\* Variant of can_transition_to that accepts every status.
can_transition_to_anything(job, new_status) == TRUE

\* Job.can_transition_to
can_transition_to(job, new_status) ==
    new_status \in job_valid_transitions(job.status)

\* PUT /jobs/{job_id}/status
UpdateJobStatus(j, status) ==
    /\ IF can_transition_to(jobs[j], status)
       THEN jobs' = [jobs EXCEPT ![j].status = status]
       ELSE UNCHANGED jobs
    /\ last_call' = Call("update_job_status", 0, 0, can_transition_to(jobs[j], status), {})
    /\ UNCHANGED <<rm_vars, scheduler, workflows, devices, tasks, sched_allocations, executing,
                   scheduled_releases>>

\* POST /jobs/{job_id}/queue
QueueJob(j) ==
    /\ IF jobs[j].status = "created"
       THEN jobs' = [jobs EXCEPT ![j].status = "queued"]
       ELSE UNCHANGED jobs
    /\ last_call' = Call("queue_job", 0, 0, jobs[j].status = "created", {})
    /\ UNCHANGED <<rm_vars, scheduler, workflows, devices, tasks, sched_allocations, executing,
                   scheduled_releases>>

\* POST /jobs/{job_id}/cancel
CancelJob(j) ==
    /\ IF jobs[j].status \in {"completed", "failed", "cancelled"}
       THEN UNCHANGED jobs
       ELSE jobs' = [jobs EXCEPT ![j].status = "cancelled"]
    /\ last_call' = Call("cancel_job", 0, 0,
                         jobs[j].status \notin {"completed", "failed", "cancelled"}, {})
    /\ UNCHANGED <<rm_vars, scheduler, workflows, devices, tasks, sched_allocations, executing,
                   scheduled_releases>>

\* POST /tasks/{task_id}/cancel
CancelTaskRoute(t) ==
    /\ IF tasks[t].status \in {"pending", "ready", "running"}
       THEN tasks' = [tasks EXCEPT ![t].status = "cancelled"]
       ELSE UNCHANGED tasks
    /\ last_call' = Call("route_cancel_task", 0, t,
                         tasks[t].status \in {"pending", "ready", "running"}, {})
    /\ UNCHANGED <<rm_vars, scheduler, workflows, devices, jobs, sched_allocations, executing,
                   scheduled_releases>>

\* The job and task routes beside the executor.
NextRoutes ==
    \/ \E j \in Jobs : \E status \in JobStatuses \cup {UnknownStatus} :
            UpdateJobStatus(j, status)
    \/ \E j \in Jobs : QueueJob(j)
    \/ \E j \in Jobs : CancelJob(j)
    \/ \E t \in Tasks : CancelTaskRoute(t)
    \/ \E t \in Tasks : ExecStart(t)
    \/ \E t \in Tasks : \E result_status \in {"completed", "failed"} :
            ExecResult(t, result_status)
    \/ \E t \in Tasks : CancelTask(t)
    \/ \E t \in Tasks : ScheduledRelease(t)

\* The routes start from registered, online devices and tasks on devices of
\* their own.
InitRoutes ==
    /\ Init
    /\ \A d \in Devices : devices[d].status = "online"
    /\ tasks[1].assigned_device_id = 0

SpecRoutes == InitRoutes /\ [][NextRoutes]_vars

\* WorkflowStatus
WorkflowStatuses ==
    {"draft", "active", "running", "completed", "failed", "cancelled", "paused"}

\* valid_transitions of update_workflow_status
workflow_valid_transitions(status) ==
    CASE status = "draft" -> {"active", "cancelled"}
      [] status = "active" -> {"running", "paused", "cancelled"}
      [] status = "running" -> {"completed", "failed", "paused"}
      [] status = "paused" -> {"running", "cancelled"}
      [] OTHER -> {}

\* Variant of workflow_status_accepted that accepts every named status.
workflow_status_accepted_unchecked(workflow, status) ==
    status \in WorkflowStatuses

\* The test update_workflow_status makes before writing
workflow_status_accepted(workflow, status) ==
    status \in workflow_valid_transitions(workflow.status)

\* PUT /workflows/{workflow_id}/status
UpdateWorkflowStatus(w, status) ==
    /\ IF workflow_status_accepted(workflows[w], status)
       THEN workflows' = [workflows EXCEPT ![w].status = status]
       ELSE UNCHANGED workflows
    /\ last_call' = Call("update_workflow_status", 0, 0,
                         workflow_status_accepted(workflows[w], status), {})
    /\ UNCHANGED <<rm_vars, scheduler, devices, tasks, jobs, sched_allocations, executing,
                   scheduled_releases>>

\* POST /jobs/ with workflow_id = w: a Job row is added and a draft workflow
\* becomes active.
CreateJob(w) ==
    /\ workflows[w].jobs < MaxWorkflowJobs
    /\ workflows' = [workflows EXCEPT
                        ![w].jobs = @ + 1,
                        ![w].status = IF @ = "draft" THEN "active" ELSE @]
    /\ last_call' = Call("create_job", 0, 0, TRUE, {})
    /\ UNCHANGED <<rm_vars, scheduler, devices, tasks, jobs, sched_allocations, executing,
                   scheduled_releases>>

NextWorkflow ==
    \/ \E w \in Workflows : \E status \in WorkflowStatuses \cup {UnknownStatus} :
            UpdateWorkflowStatus(w, status)
    \/ \E w \in Workflows : CreateJob(w)

SpecWorkflow == Init /\ [][NextWorkflow]_vars

\* ------------------------------------------------ Job.calculate_progress
\* Job rows with any status and any counters up to MaxTaskCount; the rest as
\* the constructors leave it.
InitProgress ==
    /\ devices = [d \in Devices |->
                    [status |-> "online", is_available |-> TRUE, current_task_id |-> 0]]
    /\ tasks = [t \in Tasks |->
                    [status |-> "pending",
                     assigned_device_id |-> Min(t - 1, NumDevices),
                     error_message |-> FALSE]]
    /\ jobs \in [Jobs ->
                    [status : JobStatuses,
                     total_tasks : 0..MaxTaskCount,
                     completed_tasks : 0..MaxTaskCount,
                     failed_tasks : 0..MaxTaskCount,
                     cancelled_tasks : 0..MaxTaskCount,
                     progress_percentage : {0}]]
    /\ workflows = [w \in Workflows |-> [status |-> "draft", jobs |-> 0]]
    /\ active_allocations = <<>>
    /\ sample_position_availability = {}
    /\ pending_requests = <<>>
    /\ rm_calls = [th \in RequestingTasks |-> NoCall]
    /\ sched_allocations = {}
    /\ scheduler = [running |-> TRUE, loop |-> "pass"]
    /\ executing = [t \in Tasks |-> 0]
    /\ scheduled_releases = {}
    /\ last_call = Call("init", 0, 0, FALSE, {})

\* job.progress_percentage = job.calculate_progress()
CalculateProgress(j) ==
    /\ jobs' = [jobs EXCEPT ![j].progress_percentage = calculate_progress(jobs[j])]
    /\ last_call' = Call("calculate_progress", 0, 0, TRUE, {})
    /\ UNCHANGED <<rm_vars, scheduler, workflows, devices, tasks, sched_allocations, executing,
                   scheduled_releases>>

NextProgress == \E j \in Jobs : CalculateProgress(j)

SpecProgress == InitProgress /\ [][NextProgress]_vars

\* ================================================================ claims
\* The step just taken was release_resources(d).
Released(d) == last_call'.op = "release_resources" /\ last_call'.device_id = d

\* C1: no device is bound to two tasks at once. Every active allocation is
\* recorded under the device it names, and an active allocation stays exactly
\* as it is (its device is not given to another request) in every step that
\* is not a release of its device.
C1_DeviceExclusive ==
    /\ [](\A d \in DOMAIN active_allocations : active_allocations[d].device_id = d)
    /\ [][\A d \in DOMAIN active_allocations :
            \/ Released(d)
            \/ /\ d \in DOMAIN active_allocations'
               /\ active_allocations'[d] = active_allocations[d]]_vars

\* Both devices are allocated, to different tasks, the second through a
\* request made while the first allocation was active.
C1_Witness ==
    /\ last_call.op = "request_resources" /\ last_call.ok
    /\ \E d, e \in DOMAIN active_allocations :
        /\ d # e
        /\ last_call.device_id = e
        /\ active_allocations[d].task_id # active_allocations[e].task_id

\* C2: the sample-position lists of any two distinct active allocations are
\* disjoint.
C2_PositionsDisjoint ==
    \A d, e \in DOMAIN active_allocations :
        d # e => Range(active_allocations[d].sample_positions)
                    \cap Range(active_allocations[e].sample_positions) = {}

\* Two allocations are active and both hold positions.
C2_Witness ==
    \E d, e \in DOMAIN active_allocations :
        /\ d # e
        /\ Len(active_allocations[d].sample_positions) > 0
        /\ Len(active_allocations[e].sample_positions) > 0

\* Device d, once its own reservations are dropped, satisfies request req:
\* online, available, of a required type, with enough free positions.
SatisfiedByFreed(d, req) ==
    LET spa == sample_position_availability
                \ Range(active_allocations[d].sample_positions)
    IN  /\ devices[d].status = "online"
        /\ devices[d].is_available
        /\ device_type_id(d) \in Range(req.required_device_types)
        /\ Cardinality(Range(sample_positions(d)) \ spa) >= req.sample_count

\* C7: when release_resources(d) is called for a device with an active
\* allocation and the freed device satisfies the request at the head of the
\* non-empty backlog, then on return the head request has been allocated and
\* has left the backlog.
C7_ReleaseTriggersRetry ==
    [][\A d \in Devices :
        ( /\ Released(d)
          /\ d \in DOMAIN active_allocations
          /\ Len(pending_requests) > 0
          /\ SatisfiedByFreed(d, Head(pending_requests)) )
        => /\ 1 \in last_call'.fulfilled
           /\ \E e \in DOMAIN active_allocations' :
                active_allocations'[e].task_id = Head(pending_requests).task_id
           /\ Len(pending_requests') < Len(pending_requests)]_vars

\* The step just taken was release_resources(d) for a device without an
\* active allocation, and it left the three tables as they were.
ReleaseOfFreeIsNoOp(d) ==
    (Released(d) /\ d \notin DOMAIN active_allocations) => UNCHANGED rm_vars

\* C8 as stated: releasing a device with no active allocation changes
\* nothing, and a second release of the same device right after a first one
\* changes nothing either.
C8_ReleaseIdempotent ==
    [][\A d \in Devices :
        /\ ReleaseOfFreeIsNoOp(d)
        /\ ( /\ last_call.op = "release_resources" /\ last_call.device_id = d
             /\ Released(d) )
           => UNCHANGED rm_vars]_vars

\* C8 amended: releasing a device with no active allocation changes nothing;
\* a second release of the same device changes nothing unless the first
\* release's backlog reprocessing allocated the device again.
C8_ReleaseOfFreeDevice ==
    [][\A d \in Devices :
        /\ ReleaseOfFreeIsNoOp(d)
        /\ ( /\ last_call.op = "release_resources" /\ last_call.device_id = d
             /\ Released(d)
             /\ d \notin DOMAIN active_allocations )
           => UNCHANGED rm_vars]_vars

\* release_resources returned for a device that had no allocation while the
\* backlog held a request.
C8_Witness ==
    /\ last_call.op = "release_resources"
    /\ ~last_call.ok
    /\ Len(pending_requests) > 0

\* The task's status is set to running in this step: it was not running and
\* is now, or execute_task was called for it.
SetRunning(t) ==
    /\ tasks'[t].status = "running"
    /\ \/ tasks[t].status # "running"
       \/ last_call'.op = "execute_task" /\ last_call'.task_id = t

\* C3: whatever operation sets a task's status to running, at that instant
\* every id in the task's prev_tasks names an existing task whose status is
\* completed.
C3_RunningOnlyAfterPrevCompleted ==
    [][\A t \in Tasks : SetRunning(t) => check_dependencies_satisfied(t, tasks)]_vars

\* Task t holds an active allocation: one of the ResourceManager's names the
\* task, or the scheduler holds one for the task's assigned device.
HoldsAllocation(t) ==
    \/ \E d \in DOMAIN active_allocations : active_allocations[d].task_id = t
    \/ /\ tasks[t].assigned_device_id # 0
       /\ tasks[t].assigned_device_id \in sched_allocations

\* C4: in every reachable state a task whose status is running holds an
\* active resource allocation.
C4_RunningHoldsAllocation ==
    \A t \in Tasks : tasks[t].status = "running" => HoldsAllocation(t)

\* Job.completed_tasks + failed_tasks + cancelled_tasks
FinishedCount(job) == job.completed_tasks + job.failed_tasks + job.cancelled_tasks

\* C5: in every reachable state of a job, completed_tasks + failed_tasks +
\* cancelled_tasks is at most total_tasks.
C5_CountersWithinTotal ==
    \A j \in Jobs : FinishedCount(jobs[j]) <= jobs[j].total_tasks

\* C6: a job's completed_tasks + failed_tasks + cancelled_tasks never
\* decreases from one state to the next.
C6_CountersNeverDecrease ==
    [][\A j \in Jobs : FinishedCount(jobs'[j]) >= FinishedCount(jobs[j])]_vars

\* Scenario 1: the three tasks form the chain 1 -> 2 -> 3 of one job, all
\* assigned device 1, which is online and in service.
LinearChainOnOneDevice ==
    /\ \A t \in Tasks : /\ tasks[t].assigned_device_id = 1
                        /\ prev_tasks(t) = IF t = 1 THEN <<>> ELSE <<t - 1>>
                        /\ job_id(t) = 1
    /\ is_online(devices[1])

\* C9: in scenario 1, with the scheduling loop running and every execution
\* completing, no task of the chain is started before its predecessor is
\* completed, and eventually all three tasks are completed, the job's status
\* is completed and its progress is 100.
C9_LinearChainCompletes ==
    /\ [][\A t \in Tasks : SetRunning(t) => check_dependencies_satisfied(t, tasks)]_vars
    /\ ( ( /\ LinearChainOnOneDevice
           /\ \A t \in Tasks : tasks[t].status = "pending" )
         => <>( /\ \A t \in Tasks : tasks[t].status = "completed"
                /\ jobs[1].status = "completed"
                /\ jobs[1].progress_percentage = 100 ) )

\* Scenario 2 at the instant the executor has stored the first task's
\* completed result and released its device: first holds the
\* ResourceManager's allocation of d, its assigned device, which is the only
\* device online; second's request is at the head of the backlog and d, once
\* freed, satisfies it.
FirstCompletedAndReleased(first, second, d) ==
    /\ last_call.op = "process_task_result" /\ last_call.task_id = first
    /\ tasks[first].status = "completed"
    /\ tasks[first].assigned_device_id = d
    /\ d \in DOMAIN active_allocations
    /\ active_allocations[d].task_id = first
    /\ \A e \in Devices \ {d} : devices[e].status # "online"
    /\ Len(pending_requests) > 0
    /\ Head(pending_requests).task_id = second
    /\ SatisfiedByFreed(d, Head(pending_requests))

\* The last step was a call from outside: a request, a release or an
\* execute_task.
ExternalCall ==
    last_call.op \in {"request_resources", "release_resources", "execute_task"}

\* C10: when two tasks require the same single online device and the first
\* was allocated it while the second's request went to the backlog, then once
\* the first completes and the executor releases its resources, the second
\* is allocated the device without any further external call.
C10_BacklogServedAfterCompletion ==
    \A first, second \in RequestingTasks, d \in Devices :
        (first # second /\ FirstCompletedAndReleased(first, second, d))
            ~> ( \/ \E e \in DOMAIN active_allocations :
                        active_allocations[e].task_id = second
                 \/ ExternalCall )

\* The implementation of task t raised while execute_task ran it: inside the
\* template's implementation class, or out of _run_task_implementation.
ImplementationRaised(t) == ExecImplementationRaised(t) \/ ExecError(t)

\* C11: when the implementation of a task raises while execute_task runs it,
\* the task ends failed with a non-empty error_message, its device is online
\* with no current task, the job's failed_tasks has grown by exactly 1 and a
\* task.failed event has been published.
C11_ImplementationErrorFailsTask ==
    [][\A t \in Tasks :
        ImplementationRaised(t) =>
            /\ tasks'[t].status = "failed"
            /\ tasks'[t].error_message
            /\ tasks[t].assigned_device_id # 0 =>
                /\ devices'[tasks[t].assigned_device_id].status = "online"
                /\ devices'[tasks[t].assigned_device_id].current_task_id = 0
            /\ jobs'[job_id(t)].failed_tasks = jobs[job_id(t)].failed_tasks + 1
            /\ <<t, "failed">> \in task_events(last_call')]_vars

\* C11 amended: when an exception leaves _run_task_implementation (a missing
\* template, the default execution raising), the task ends failed with a
\* non-empty error_message, its device is online with no current task, the
\* job's failed_tasks has grown by exactly 1 and a task.failed event has been
\* published.
C11_PropagatedErrorFailsTask ==
    [][\A t \in Tasks :
        ExecError(t) =>
            /\ tasks'[t].status = "failed"
            /\ tasks'[t].error_message
            /\ tasks[t].assigned_device_id # 0 =>
                /\ devices'[tasks[t].assigned_device_id].status = "online"
                /\ devices'[tasks[t].assigned_device_id].current_task_id = 0
            /\ jobs'[job_id(t)].failed_tasks = jobs[job_id(t)].failed_tasks + 1
            /\ <<t, "failed">> \in task_events(last_call')]_vars

\* _handle_task_error has just run for a task that has an assigned device.
C11_Witness ==
    \E t \in Tasks :
        /\ last_call.op = "handle_task_error" /\ last_call.task_id = t
        /\ tasks[t].status = "failed"
        /\ tasks[t].assigned_device_id # 0
        /\ jobs[job_id(t)].failed_tasks = 1

\* C12: an allocation is only ever created, by request_resources or by
\* backlog reprocessing, for a device that is online and available at that
\* moment; a queued request is never allocated an offline device.
C12_AllocatedDeviceIsOnline ==
    [][\A d \in DOMAIN active_allocations' :
        ( \/ d \notin DOMAIN active_allocations
          \/ active_allocations'[d] # active_allocations[d] )
        => /\ devices[d].status = "online"
           /\ devices[d].is_available]_vars

\* A release has just reprocessed the backlog while a device of the type the
\* head request waits for was offline and free: the request is still queued.
C12_Witness ==
    /\ last_call.op = "release_resources" /\ last_call.ok
    /\ Len(pending_requests) > 0
    /\ \E d \in Devices :
        /\ devices[d].status = "offline"
        /\ d \notin DOMAIN active_allocations
        /\ device_type_id(d) \in Range(Head(pending_requests).required_device_types)

\* p is the progress the formula gives for the job: with no tasks, 100 for a
\* completed, failed or cancelled job and 0 otherwise; else the whole part of
\* (completed*100 + failed*50 + cancelled*25) / total_tasks, capped at 100.
IsProgressOf(p, job) ==
    LET weighted == job.completed_tasks * 100 + job.failed_tasks * 50
                        + job.cancelled_tasks * 25
    IN  IF job.total_tasks = 0
        THEN p = IF job.status \in {"completed", "failed", "cancelled"} THEN 100 ELSE 0
        ELSE IF weighted >= 100 * job.total_tasks
        THEN p = 100
        ELSE /\ p * job.total_tasks <= weighted
             /\ weighted < (p + 1) * job.total_tasks

\* C13: Job.calculate_progress() returns min(100, (completed_tasks*100 +
\* failed_tasks*50 + cancelled_tasks*25) / total_tasks) when total_tasks > 0,
\* 100 or 0 by whether the status is terminal when total_tasks = 0, and the
\* result is always within 0..100.
C13_CalculateProgress ==
    [][\A j \in Jobs :
        CalculateProgress(j) =>
            /\ IsProgressOf(jobs'[j].progress_percentage, jobs[j])
            /\ jobs'[j].progress_percentage \in 0..100]_vars

\* Progress was computed for a job whose weighted sum exceeds its task count,
\* and for one the division does not come out even.
C13_Witness ==
    /\ last_call.op = "calculate_progress"
    /\ \E j \in Jobs :
        /\ jobs[j].total_tasks > 0
        /\ jobs[j].progress_percentage \in {33, 100}
        /\ jobs[j].failed_tasks > 0

\* C14: every change of a job's status, by the status update route, the
\* queue route, the cancel route or the processing of a task result, follows
\* the job transition table: created to queued or cancelled; queued to
\* running, cancelled or failed; running to completed, failed, cancelled or
\* paused; paused to running, cancelled or failed; failed to queued; nothing
\* from completed or cancelled. So a job becomes completed only from running.
C14_JobTransitionsFollowTable ==
    [][\A j \in Jobs :
        jobs'[j].status # jobs[j].status =>
            \/ jobs[j].status = "created" /\ jobs'[j].status \in {"queued", "cancelled"}
            \/ jobs[j].status = "queued"
                    /\ jobs'[j].status \in {"running", "cancelled", "failed"}
            \/ jobs[j].status = "running"
                    /\ jobs'[j].status \in {"completed", "failed", "cancelled", "paused"}
            \/ jobs[j].status = "paused"
                    /\ jobs'[j].status \in {"running", "cancelled", "failed"}
            \/ jobs[j].status = "failed" /\ jobs'[j].status = "queued"]_vars

\* C15: a task whose status is completed, failed or cancelled never changes
\* status again, whatever operation runs.
C15_FinishedTaskKeepsStatus ==
    [][\A t \in Tasks :
        tasks[t].status \in {"completed", "failed", "cancelled"} =>
            tasks'[t].status = tasks[t].status]_vars

\* The workflow transition table allows the step from one status to another.
WorkflowStepAllowed(from, to) ==
    \/ from = "draft" /\ to \in {"active", "cancelled"}
    \/ from = "active" /\ to \in {"running", "paused", "cancelled"}
    \/ from = "running" /\ to \in {"completed", "failed", "paused"}
    \/ from = "paused" /\ to \in {"running", "cancelled"}

\* C16: every change of a workflow's status, by the status update route or by
\* job creation, follows the workflow transition table; a completed, failed
\* or cancelled workflow never changes status again; and a status update
\* outside the table is rejected with the workflow unchanged.
C16_WorkflowTransitionsFollowTable ==
    [][\A w \in Workflows :
        /\ workflows'[w].status # workflows[w].status =>
                WorkflowStepAllowed(workflows[w].status, workflows'[w].status)
        /\ workflows[w].status \in {"completed", "failed", "cancelled"} =>
                workflows'[w].status = workflows[w].status
        /\ \A status \in WorkflowStatuses \cup {UnknownStatus} :
                (UpdateWorkflowStatus(w, status)
                    /\ ~WorkflowStepAllowed(workflows[w].status, status)) =>
                        /\ ~last_call'.ok
                        /\ workflows' = workflows]_vars

\* A status update was just rejected while some workflow is finished and
\* another became active by job creation.
C16_Witness ==
    /\ last_call.op = "update_workflow_status"
    /\ ~last_call.ok
    /\ \E w \in Workflows : workflows[w].status \in {"completed", "failed", "cancelled"}
    /\ \E w \in Workflows : workflows[w].status = "active" /\ workflows[w].jobs > 0

\* Device d is in an active-allocation table: the ResourceManager's or the
\* scheduler's.
Allocated(d) ==
    d \in DOMAIN active_allocations \/ d \in sched_allocations

\* C17: in every reachable state a device's status is busy if and only if
\* the device is in the active-allocation table.
C17_BusyIffAllocated ==
    \A d \in Devices : devices[d].status = "busy" <=> Allocated(d)

\* The running tasks assigned to device d.
RunningOn(d) ==
    {t \in Tasks : tasks[t].status = "running" /\ tasks[t].assigned_device_id = d}

\* C18: for every device at most one task is both running and assigned to
\* it, and when there is one the device's current_task_id is that task.
C18_OneRunningTaskPerDevice ==
    \A d \in Devices :
        /\ Cardinality(RunningOn(d)) <= 1
        /\ \A t \in RunningOn(d) : devices[d].current_task_id = t

\* C19: cancelling is permitted only for a running task: for a task in any
\* other status every cancel entry point (TaskExecutor.cancel_task and the
\* cancel route) refuses and leaves the task's status unchanged.
C19_CancelOnlyWhenRunning ==
    [][\A t \in Tasks :
        ((CancelTask(t) \/ CancelTaskRoute(t)) /\ tasks[t].status # "running") =>
            /\ ~last_call'.ok
            /\ tasks'[t].status = tasks[t].status]_vars

\* execute_task returns for task t in this step.
ExecuteTaskReturns(t) ==
    \/ \E result_status \in {"completed", "failed"} : ExecResult(t, result_status)
    \/ ExecError(t)
    \/ ExecImplementationRaised(t)

\* C20: when execute_task returns, whatever the outcome, the task's device
\* holds no active allocation in any allocation table and is not busy with
\* that task.
C20_ReturnLeavesDeviceFree ==
    [][\A t \in Tasks :
        (ExecuteTaskReturns(t) /\ tasks[t].assigned_device_id # 0) =>
            LET d == tasks[t].assigned_device_id
            IN  /\ d \notin DOMAIN active_allocations'
                /\ d \notin sched_allocations'
                /\ ~(devices'[d].status = "busy" /\ devices'[d].current_task_id = t)]_vars

\* The request could be served now: a device of a required type is online,
\* available, holds no allocation and has enough unreserved sample positions.
FreeDeviceFor(request) ==
    \E d \in Devices :
        /\ device_type_id(d) \in Range(request.required_device_types)
        /\ devices[d].status = "online"
        /\ devices[d].is_available
        /\ d \notin DOMAIN active_allocations
        /\ Cardinality(Range(sample_positions(d)) \ sample_position_availability)
                >= request.sample_count

\* A request of task t waits in the backlog although it could be served.
WaitsWhileServable(t) ==
    \E i \in DOMAIN pending_requests :
        /\ pending_requests[i].task_id = t
        /\ FreeDeviceFor(pending_requests[i])

\* C21: a backlog request for which, from some point on, a matching online,
\* available, unallocated device with enough free sample positions exists is
\* eventually allocated: no request waits in the backlog for ever while the
\* resources it waits for stay free.
C21_ServableBacklogIsServed ==
    \A t \in RequestingTasks : []<>(~WaitsWhileServable(t))

\* C22: whenever a task.failed event is published for a task, the task's
\* status is already failed and the owning job's failed_tasks counter and
\* progress already account for that failure, on both failure paths (a result
\* reporting failure, an unhandled execution error).
C22_FailedEventAfterAggregates ==
    [][\A t \in Tasks :
        <<t, "failed">> \in task_events(last_call') =>
            /\ tasks'[t].status = "failed"
            /\ jobs'[job_id(t)].failed_tasks = jobs[job_id(t)].failed_tasks + 1
            /\ jobs'[job_id(t)].progress_percentage
                    = calculate_progress(jobs'[job_id(t)])]_vars

RECURSIVE Kept(_, _, _)
Kept(pend, F, n) ==
    IF n = 0 THEN <<>>
    ELSE IF n \in F THEN Kept(pend, F, n - 1)
    ELSE Append(Kept(pend, F, n - 1), pend[n])

\* The step reprocessed the backlog: a release of a device that held an
\* allocation, or optimize_allocation.
Reprocessed ==
    \/ last_call'.op = "release_resources" /\ last_call'.ok
    \/ last_call'.op = "optimize_allocation"

AllTasksFinished(j, tk) ==
    \A t \in Tasks : job_id(t) = j =>
        tk[t].status \in {"completed", "failed", "cancelled"}

\* C25: when a task result is processed and every task of the owning job is
\* then completed, failed or cancelled, the job's status becomes completed;
\* while some task of the job is in another status, result processing does
\* not mark the job completed.
C25_JobCompletedWhenAllTasksFinished ==
    [][\A t \in Tasks :
        (last_call'.op = "process_task_result" /\ last_call'.task_id = t) =>
            IF AllTasksFinished(job_id(t), tasks')
            THEN jobs'[job_id(t)].status = "completed"
            ELSE jobs'[job_id(t)].status = jobs[job_id(t)].status]_vars

\* C26: when the implementation returns a result whose status is not
\* completed, the task ends failed with an error_message, the job's
\* failed_tasks counts that task and the progress is recomputed from the
\* updated counters.
C26_FailedResultReachesJob ==
    [][\A t \in Tasks :
        ExecResult(t, "failed") =>
            /\ tasks'[t].status = "failed"
            /\ tasks'[t].error_message
            /\ jobs'[job_id(t)].failed_tasks > jobs[job_id(t)].failed_tasks
            /\ jobs'[job_id(t)].progress_percentage
                    = calculate_progress(jobs'[job_id(t)])]_vars

\* C27: when resolving or running the custom implementation raises, the task
\* is not failed for that: the default execution runs and the task ends as
\* the default execution ends, completed, with no error recorded, no failure
\* counted and task.completed published.
C27_ImplementationErrorFallsBack ==
    [][\A t \in Tasks :
        ExecImplementationRaised(t) =>
            /\ tasks'[t].status = default_task_execution
            /\ tasks'[t].error_message = tasks[t].error_message
            /\ jobs'[job_id(t)].failed_tasks = jobs[job_id(t)].failed_tasks
            /\ task_events(last_call') = {<<t, "completed">>}]_vars

\* A task whose custom implementation raised has ended completed by the
\* default execution, and its device is free again.
C27_Witness ==
    \E t \in Tasks :
        /\ last_call = Call("default_task_execution", 0, t, TRUE, {})
        /\ tasks[t].status = "completed"
        /\ ~tasks[t].error_message
        /\ tasks[t].assigned_device_id # 0

\* C28: while the scheduler is started, an error raised while evaluating or
\* allocating one task, or in the body of an iteration, never ends the loop:
\* the iteration ends in the loop's sleep with the flag still set, the pass
\* has gone on to the other tasks (none of them is left that could run), and
\* as long as nobody stops the scheduler a pass is followed by a sleep and a
\* sleep by another pass.
C28_LoopSurvivesErrors ==
    /\ [][\A failing \in SUBSET Tasks :
            (LoopPassAborted \/ LoopPass(failing)) =>
                /\ scheduler'.running
                /\ scheduler'.loop = "sleep"]_vars
    /\ [][\A failing \in SUBSET Tasks :
            LoopPass(failing) =>
                \A t \in Tasks \ failing :
                    ~(/\ tasks'[t].assigned_device_id # 0
                      /\ can_task_run(t, tasks', devices', sched_allocations'))]_vars
    /\ (scheduler.running /\ scheduler.loop = "pass")
            ~> (scheduler.loop = "sleep" \/ ~scheduler.running)
    /\ (scheduler.running /\ scheduler.loop = "sleep")
            ~> (scheduler.loop = "pass" \/ ~scheduler.running)

\* A pass has just ended in which a task that could run was passed over
\* because evaluating it raised, and the loop sleeps until the next pass.
C28_Witness ==
    /\ last_call.op = "run_scheduler_loop"
    /\ scheduler.running
    /\ scheduler.loop = "sleep"
    /\ \E t \in Tasks :
        /\ tasks[t].assigned_device_id # 0
        /\ can_task_run(t, tasks, devices, sched_allocations)

\* C29: evaluating a scheduling decision changes nothing: can_task_run
\* leaves every task, device, allocation table and the backlog as they are,
\* whatever the decision; and in a scheduling pass a task that is not started
\* keeps its status and its device assignment.
C29_DecisionChangesNothing ==
    /\ [][last_call'.op = "can_task_run" =>
            UNCHANGED <<devices, tasks, jobs, workflows, rm_vars, sched_allocations,
                        scheduler, executing, scheduled_releases>>]_vars
    /\ [][last_call'.op = "run_scheduler_loop" =>
            \A t \in Tasks \ last_call'.fulfilled : tasks'[t] = tasks[t]]_vars

\* A pass has just started one task and left another, which got a negative
\* decision, pending.
C29_Witness ==
    /\ last_call.op = "run_scheduler_loop"
    /\ last_call.fulfilled # {}
    /\ \E t \in Tasks \ last_call.fulfilled :
        /\ tasks[t].status = "pending"
        /\ ~can_task_run(t, tasks, devices, sched_allocations)

\* C30: in a scheduling pass every task that receives a positive decision
\* is, once its allocate step has run, running, its device is busy with
\* current_task_id equal to the task, and task.started has been published,
\* with or without a pre-assigned device: after the pass every started
\* task is so, and no task with a positive decision is left waiting.
C30_PositiveDecisionStartsTask ==
    [][last_call'.op = "run_scheduler_loop" =>
        \A t \in Tasks :
            /\ t \in last_call'.fulfilled =>
                /\ tasks'[t].status = "running"
                /\ tasks'[t].assigned_device_id # 0
                /\ devices'[tasks'[t].assigned_device_id].status = "busy"
                /\ devices'[tasks'[t].assigned_device_id].current_task_id = t
                /\ <<t, "started">> \in task_events(last_call')
            /\ t \notin last_call'.fulfilled =>
                ~can_task_run(t, tasks', devices', sched_allocations')]_vars

\* The decision the resources of task t call for: with an assigned device,
\* that device is online, available and not allocated; without one, there
\* are at least as many online, available, non-allocated devices of the
\* template's required types as types are required.
ResourcesCallFor(t) ==
    LET device_id == tasks[t].assigned_device_id
        required_device_types == template_required_device_types(t)
        free == {d \in Devices : /\ device_type_id(d) \in Range(required_device_types)
                                 /\ is_online(devices[d])
                                 /\ d \notin sched_allocations}
    IN  IF device_id # 0
        THEN is_online(devices[device_id]) /\ device_id \notin sched_allocations
        ELSE Cardinality(free) >= Len(required_device_types)

\* C31: for a task that is pending or ready with all dependencies completed,
\* can_task_run is positive exactly when, with an assigned device, that
\* device is online, available and not actively allocated, and, without one,
\* at least as many online, available, non-allocated devices of the
\* template's required types exist as types are requested.
C31_DecisionFollowsResources ==
    \A t \in Tasks :
        ( /\ last_call.op = "can_task_run"
          /\ last_call.task_id = t
          /\ tasks[t].status \in {"pending", "ready"}
          /\ check_dependencies_satisfied(t, tasks) )
        => (last_call.ok <=> ResourcesCallFor(t))

\* C32: the scheduler's and the ResourceManager's views of which devices are
\* allocated agree in every reachable state: every device the scheduler
\* records as allocated has an active allocation in the ResourceManager, and
\* every active allocation of the ResourceManager is recorded by the
\* scheduler.
C32_AllocationViewsAgree ==
    /\ \A d \in sched_allocations : d \in DOMAIN active_allocations
    /\ \A d \in DOMAIN active_allocations : d \in sched_allocations

\* C33: with request_resources and release_resources running concurrently,
\* the find-then-allocate step and the release-then-reprocess step take
\* effect atomically: an allocation is never written for a device that has
\* an active allocation or with a position that is reserved (no device or
\* position goes to two requests), and the backlog is never reprocessed while
\* another release has given back the positions of an allocation that is
\* still in the table.
C33_CallsTakeEffectAtomically ==
    /\ [][\A th \in RequestingTasks :
            (rm_calls[th].pc = "allocate" /\ rm_calls'[th].pc = "idle") =>
                /\ rm_calls[th].allocation.device_id \notin DOMAIN active_allocations
                /\ Range(rm_calls[th].allocation.sample_positions)
                        \cap sample_position_availability = {}]_vars
    /\ [][\A th \in RequestingTasks :
            (rm_calls[th].pc = "reprocess" /\ rm_calls'[th].pc = "idle") =>
                \A other \in RequestingTasks : rm_calls[other].pc # "delete"]_vars

\* Task t is running on device d, which is marked busy for it.
RunningOnBusy(t, d) ==
    /\ tasks[t].status = "running"
    /\ devices[d].status = "busy"
    /\ devices[d].current_task_id = t

\* C34: every active allocation of the ResourceManager binds its device to a
\* running task. In particular no allocation is active for a task that is
\* completed, failed or cancelled, and when a release has fulfilled a request
\* from the backlog, that request's task is running on the device allocated
\* to it, which is marked busy for it.
C34_AllocationMeansRunning ==
    /\ [](\A d \in DOMAIN active_allocations :
            tasks[active_allocations[d].task_id].status
                \notin {"completed", "failed", "cancelled"})
    /\ [][(last_call'.op = "release_resources" /\ last_call'.fulfilled # {}) =>
            \A i \in last_call'.fulfilled :
                \E d \in DOMAIN active_allocations' :
                    /\ active_allocations'[d].task_id = pending_requests[i].task_id
                    /\ RunningOnBusy(pending_requests[i].task_id, d)']_vars

\* C35: whenever task result processing or task error handling has written
\* a job's counters or progress, the stored progress_percentage equals
\* calculate_progress() of the job's completed_tasks, failed_tasks,
\* cancelled_tasks and total_tasks as they are then.
C35_StoredProgressIsCalculated ==
    [][\A t \in Tasks :
        ( /\ last_call'.op \in {"process_task_result", "default_task_execution",
                                "handle_task_error"}
          /\ last_call'.task_id = t )
        => jobs'[job_id(t)].progress_percentage
                = calculate_progress(jobs'[job_id(t)])]_vars

\* With the store returning the rows in this order, a device selected for the
\* request has fewer free positions than the request's sample count.
SelectionFallsShort(request, order) ==
    LET available_devices == get_available_devices(request.required_device_types, order)
        selected_devices ==
            Take(SelectSeq(available_devices, LAMBDA d : d \notin DOMAIN active_allocations),
                 Len(request.required_device_types))
    IN  \E i \in DOMAIN selected_devices :
            Cardinality(Range(sample_positions(selected_devices[i]))
                            \ sample_position_availability) < request.sample_count

\* C36: a request that cannot be satisfied is all-or-nothing. When, whatever
\* the row order, a device selected for the request has fewer free positions
\* than the sample count, request_resources returns the queued outcome,
\* reserves no position and records no allocation, and only the backlog
\* grows; a request_resources call that returns no allocation leaves both
\* tables as they were; and backlog reprocessing leaves no trace of the
\* requests it does not fulfil: afterwards the allocation table holds the
\* allocations it kept and one allocation per fulfilled request, and the
\* reserved positions are those of the allocations in the table.
C36_UnsatisfiedRequestReservesNothing ==
    /\ [][last_call'.op = "request_resources" =>
            \A types \in ListsOf(DeviceTypes, 1, MaxReqTypes), count \in 0..MaxSampleCount :
                LET request == ResourceRequest(last_call'.task_id, types, count)
                IN  ( /\ \A order \in StoreOrders : SelectionFallsShort(request, order)
                      /\ RequestResources(request.task_id, types, count) ) =>
                            /\ ~last_call'.ok
                            /\ pending_requests' = Append(pending_requests, request)
                            /\ UNCHANGED <<active_allocations,
                                           sample_position_availability>>]_vars
    /\ [][(last_call'.op = "request_resources" /\ ~last_call'.ok) =>
            UNCHANGED <<active_allocations, sample_position_availability>>]_vars
    /\ [][Reprocessed =>
            LET released == IF last_call'.op = "release_resources"
                            THEN {last_call'.device_id} ELSE {}
                kept == DOMAIN active_allocations \ released
                new == {d \in DOMAIN active_allocations' :
                            d \notin kept \/ active_allocations'[d] # active_allocations[d]}
            IN  /\ \A d \in kept : d \in DOMAIN active_allocations'
                /\ Cardinality(new) = Cardinality(last_call'.fulfilled)
                /\ {active_allocations'[d].task_id : d \in new}
                        = {pending_requests[i].task_id : i \in last_call'.fulfilled}
                /\ sample_position_availability' =
                        UNION {Range(active_allocations'[d].sample_positions)
                                : d \in DOMAIN active_allocations'}]_vars

\* A request for two devices with two positions each was just queued with
\* nothing reserved, although both devices are online and free and one of
\* them has the two positions.
C36_Witness ==
    /\ last_call.op = "request_resources"
    /\ ~last_call.ok
    /\ active_allocations = <<>>
    /\ sample_position_availability = {}
    /\ Len(pending_requests) > 0
    /\ LET request == pending_requests[Len(pending_requests)]
       IN  /\ request.task_id = last_call.task_id
           /\ Len(request.required_device_types) = 2
           /\ request.sample_count = 2
           /\ FreeDeviceFor(request)
    /\ \A d \in Devices : is_online(devices[d])

\* C37: a task cancelled while its implementation is still executing stays
\* cancelled: when the execution finishes, result processing or error
\* handling leaves the status cancelled and the job's completed_tasks does
\* not count the task.
C37_CancelledStaysCancelled ==
    [][\A t \in Tasks :
        ( /\ tasks[t].status = "cancelled"
          /\ executing[t] > 0
          /\ last_call'.op \in {"process_task_result", "default_task_execution",
                                "handle_task_error"}
          /\ last_call'.task_id = t )
        => /\ tasks'[t].status = "cancelled"
           /\ jobs'[job_id(t)].completed_tasks
                = Cardinality({u \in Tasks \ {t} :
                        job_id(u) = job_id(t) /\ tasks'[u].status = "completed"})]_vars

\* C38: releasing the resources of task T only affects a device held by T:
\* while another task U is running on the device assigned to T (marked busy
\* for U), a release made for a task T that has finished (completed, failed
\* or cancelled), by the executor or by the scheduler, leaves the device busy
\* with current_task_id U.
C38_ReleaseLeavesOthersDevice ==
    [][\A t \in Tasks : \A u \in Tasks \ {t} :
        LET d == tasks[t].assigned_device_id
        IN  ( /\ d # 0
              /\ tasks[t].status \in {"completed", "failed", "cancelled"}
              /\ RunningOnBusy(u, d)
              /\ last_call'.task_id = t
              /\ last_call'.op \in {"release_task_resources", "process_task_result",
                                    "default_task_execution", "handle_task_error",
                                    "scheduler_release_resources"} )
            => /\ devices'[d].status = "busy"
               /\ devices'[d].current_task_id = u]_vars

\* The devices a request for these types can select: of a required type,
\* online, available and without an active allocation.
Selectable(types) ==
    {d \in Devices : /\ device_type_id(d) \in Range(types)
                     /\ devices[d].status = "online"
                     /\ devices[d].is_available
                     /\ d \notin DOMAIN active_allocations}

\* C39: when a request naming k required device types is satisfied, every
\* device selected for it, not only the first, is recorded as actively
\* allocated: the allocation table gains as many devices as were selected (k,
\* or all selectable devices when there are fewer), each recorded for the
\* request's task.
C39_EverySelectedDeviceIsAllocated ==
    [][(last_call'.op = "request_resources" /\ last_call'.ok) =>
        \A types \in ListsOf(DeviceTypes, 1, MaxReqTypes), count \in 0..MaxSampleCount :
            RequestResources(last_call'.task_id, types, count) =>
                LET new == DOMAIN active_allocations' \ DOMAIN active_allocations
                IN  /\ Cardinality(new) = Min(Len(types), Cardinality(Selectable(types)))
                    /\ \A d \in new :
                        active_allocations'[d].task_id = last_call'.task_id]_vars

\* C40: in every reachable state of the ResourceManager the reserved
\* position names are exactly the sample positions of the active
\* allocations: allocating adds the allocation's positions, releasing
\* removes them, and no reserved position is left without an allocation.
C40_ReservedArePositionsOfAllocations ==
    sample_position_availability =
        UNION {Range(active_allocations[d].sample_positions)
                : d \in DOMAIN active_allocations}

\* A release has just removed one allocation with its positions while
\* another allocation that holds positions stays, and a request waits.
C40_Witness ==
    /\ last_call.op = "release_resources"
    /\ last_call.ok
    /\ last_call.device_id \notin DOMAIN active_allocations
    /\ \E d \in DOMAIN active_allocations :
            Len(active_allocations[d].sample_positions) > 0
    /\ Len(pending_requests) > 0

====
